---- MODULE Spec2Model ----
(***************************************************************************)
(* Model of app.py, a Streamlit front-end for four fal.ai models.         *)
(*                                                                         *)
(* Streamlit re-executes the whole script on every widget interaction.    *)
(* The state is therefore the widget values, st.session_state, the        *)
(* process environment variable FAL_KEY, and what the last script run     *)
(* did (the calls it issued, the response it got, how it ended).  Every   *)
(* action below is one interaction followed by the script run it          *)
(* triggers.                                                               *)
(*                                                                         *)
(* Text whose characters the code inspects (prompt, API key, resolution,  *)
(* model type) is a sequence of one-character strings; text that is only  *)
(* tested for emptiness or passed on (URLs, file contents) is a string.   *)
(***************************************************************************)
EXTENDS Integers, Sequences, FiniteSets, TLC

\* The session history is unbounded in the program; a specification stops
\* submitting once the history holds its cap of records: MaxResults where the
\* responses vary, MaxFormResults where the form varies.
MaxResults == 2
MaxFormResults == 1

EmptyDict == [k \in {} |-> k]
None == "None"

(***************************************************************************)
(* Python string primitives used by the script.                           *)
(***************************************************************************)
Digits == <<"0", "1", "2", "3", "4", "5", "6", "7", "8", "9">>

IsDigit(c) == \E i \in 1..10 : Digits[i] = c

DigitVal(c) == (CHOOSE i \in 1..10 : Digits[i] = c) - 1

IsSpace(c) == c \in {" ", "\t", "\n", "\r"}

\* sub in s
Contains(sub, s) ==
    \E i \in 0..(Len(s) - Len(sub)) :
        \A j \in 1..Len(sub) : s[i + j] = sub[j]

\* s.split(sep) for a one-character separator
RECURSIVE Split(_, _)
Split(s, sep) ==
    IF \A i \in 1..Len(s) : s[i] # sep
    THEN <<s>>
    ELSE LET i == CHOOSE k \in 1..Len(s) :
                      s[k] = sep /\ \A j \in 1..(k - 1) : s[j] # sep
         IN <<SubSeq(s, 1, i - 1)>> \o Split(SubSeq(s, i + 1, Len(s)), sep)

\* lst[0:2]
FirstTwo(lst) == SubSeq(lst, 1, IF Len(lst) < 2 THEN Len(lst) ELSE 2)

RECURSIVE LStrip(_)
LStrip(s) == IF s # <<>> /\ IsSpace(Head(s)) THEN LStrip(Tail(s)) ELSE s

RECURSIVE RStrip(_)
RStrip(s) ==
    IF s # <<>> /\ IsSpace(s[Len(s)]) THEN RStrip(SubSeq(s, 1, Len(s) - 1)) ELSE s

RECURSIVE DigitsValue(_)
DigitsValue(s) ==
    IF s = <<>> THEN 0
    ELSE 10 * DigitsValue(SubSeq(s, 1, Len(s) - 1)) + DigitVal(s[Len(s)])

\* int(s): surrounding whitespace is ignored, one optional sign, then decimal
\* digits only; anything else raises ValueError.
PyInt(s) ==
    LET t == RStrip(LStrip(s))
        signed == t # <<>> /\ Head(t) \in {"+", "-"}
        body == IF signed THEN Tail(t) ELSE t
    IN IF body # <<>> /\ \A i \in 1..Len(body) : IsDigit(body[i])
       THEN [ok |-> TRUE,
             val |-> IF signed /\ Head(t) = "-"
                     THEN 0 - DigitsValue(body) ELSE DigitsValue(body)]
       ELSE [ok |-> FALSE, val |-> 0]

\* str(n) for an integer n
RECURSIVE NatToStr(_)
NatToStr(n) ==
    IF n < 10 THEN <<Digits[n + 1]>>
    ELSE NatToStr(n \div 10) \o <<Digits[(n % 10) + 1]>>

PyStr(n) == IF n < 0 THEN <<"-">> \o NatToStr(0 - n) ELSE NatToStr(n)

(***************************************************************************)
(* Model catalogue.                                                        *)
(***************************************************************************)
T2V == <<"t","e","x","t","-","t","o","-","v","i","d","e","o">>
I2V == <<"i","m","a","g","e","-","t","o","-","v","i","d","e","o">>
T2I == <<"t","e","x","t","-","t","o","-","i","m","a","g","e">>
I2I == <<"i","m","a","g","e","-","t","o","-","i","m","a","g","e">>
VideoWord == <<"v","i","d","e","o">>

ModeNames == {"Text to Video", "Image to Video", "Text to Image", "Image to Image"}

MODELS(mode) ==
    CASE mode = "Text to Video" ->
            [id |-> "fal-ai/wan-25-preview/text-to-video", type |-> T2V, output |-> "video"]
      [] mode = "Image to Video" ->
            [id |-> "fal-ai/seed-1-image-to-video", type |-> I2V, output |-> "video"]
      [] mode = "Text to Image" ->
            [id |-> "fal-ai/stable-diffusion-xl-lightning", type |-> T2I, output |-> "image"]
      [] mode = "Image to Image" ->
            [id |-> "fal-ai/sdxl-img2img", type |-> I2I, output |-> "image"]

image_input_needed(mode) == MODELS(mode).type \in {I2V, I2I}

IsVideoType(mode) == Contains(VideoWord, MODELS(mode).type)

(***************************************************************************)
(* Widget option lists and the values the model lets the user enter.      *)
(***************************************************************************)
FAL_KEY_HERE == <<"F","A","L","_","K","E","Y","_","H","E","R","E">>
GoodKey == <<"i","d",":","s">>
BadKey == <<"i","d","s">>
ApiKeys == {<<>>, BadKey, GoodKey}

\* The default text of the prompt box, abbreviated.
DefaultPrompt == <<"A"," ","c","i","t","y">>
BlankPrompt == <<" ">>
Prompts == {<<>>, BlankPrompt, DefaultPrompt}

Res1024 == <<"1","0","2","4","x","1","0","2","4">>
Res1280 == <<"1","2","8","0","x","7","2","0"," ","(","1","6",":","9",")">>
Res720 == <<"7","2","0","x","1","2","8","0"," ","(","9",":","1","6",")">>
Res576 == <<"1","0","2","4","x","5","7","6">>
Resolutions == {Res1024, Res1280, Res720, Res576}

Ratio169 == <<"1","6",":","9">>
Ratio916 == <<"9",":","1","6">>
Ratio11 == <<"1",":","1">>
Res1080p == <<"1","0","8","0","p">>

\* select_slider over range(3, 11); the model offers the default and one more.
DefaultDuration == 5
Durations == {DefaultDuration, 10}

Seeds == {-2, -1, 0, 7}
DefaultSeed == -1

\* The strength slider in hundredths: 0.75 is 75.
DefaultStrength == 75
Strengths == {DefaultStrength, 100}

\* The default negative prompt, abbreviated.
DefaultNegative == <<"b","l","u","r","r","y">>
Negatives == {<<>>, DefaultNegative}

UserUrl == "https://user/i.png"
ImageUrls == {"", UserUrl}
AudioUrls == {"", "https://user/m.mp3"}

\* What the browser hands over for an uploaded file.
Files == { [name |-> "a.png", type |-> "image/png", data |-> "bytesA"] }

\* The None-or-value slots of the script are sequences of length at most one.
Nothing == <<>>
Some(v) == <<v>>

\* JSON values that may be a number or text carry their kind.
JInt(n) == [int |-> n]
JStr(s) == [str |-> s]

(***************************************************************************)
(* State.                                                                  *)
(***************************************************************************)
VARIABLES
    selected_mode,       \* mode selectbox
    uploaded_file,       \* file_uploader widget: Nothing or Some(file)
    image_url_input,     \* "Image URL" text input
    prompt,              \* prompt text area
    duration,            \* video length slider
    resolution,          \* resolution selectbox
    seed,                \* seed number input
    strength,            \* strength slider
    audio_url,           \* audio URL text input
    negative_prompt,     \* negative prompt text area
    custom_api_key,      \* API key text input
    uploaded_file_data,  \* st.session_state.uploaded_file_data
    results,             \* st.session_state.results, newest first
    environ,             \* os.environ, restricted to FAL_KEY
    calls,               \* external calls issued by the last script run, in order
    result,              \* Nothing or Some(response of fal_client.subscribe) of the last run
    outcome,             \* how the last script run ended
    successes            \* number of runs that reached st.success

widgets == <<selected_mode, uploaded_file, image_url_input, prompt, duration,
             resolution, seed, strength, audio_url, negative_prompt, custom_api_key>>

vars == <<selected_mode, uploaded_file, image_url_input, prompt, duration,
          resolution, seed, strength, audio_url, negative_prompt, custom_api_key,
          uploaded_file_data, results, environ, calls, result, outcome, successes>>

\* os.environ.get("FAL_KEY", "FAL_KEY_HERE"), evaluated at the top of every run
DEFAULT_FAL_KEY ==
    IF "FAL_KEY" \in DOMAIN environ THEN environ["FAL_KEY"] ELSE FAL_KEY_HERE

api_key_to_use == IF custom_api_key # <<>> THEN custom_api_key ELSE DEFAULT_FAL_KEY

\* StageImage with the uploader winning over the URL box.
StageImageUploadFirst(mode, file, url, staged) ==
    IF image_input_needed(mode)
    THEN IF file # Nothing THEN file
         ELSE IF url # "" THEN Nothing ELSE staged
    ELSE Nothing

\* Lines 99-122: what a script run leaves in st.session_state.uploaded_file_data,
\* given the mode, the uploader's content and the URL box of that run.
StageImage(mode, file, url, staged) ==
    IF image_input_needed(mode)
    THEN LET afterUpload == IF file # Nothing THEN file ELSE staged
         IN IF url # "" THEN Nothing ELSE afterUpload
    ELSE Nothing

\* image_url_from_input of a run: None unless the URL box is rendered
image_url_from_input(mode, url) == IF image_input_needed(mode) THEN url ELSE None

Init ==
    /\ selected_mode = "Text to Video"
    /\ uploaded_file = Nothing
    /\ image_url_input = ""
    /\ prompt = DefaultPrompt
    /\ duration = DefaultDuration
    /\ resolution = Res1024
    /\ seed = DefaultSeed
    /\ strength = DefaultStrength
    /\ audio_url = ""
    /\ negative_prompt = DefaultNegative
    /\ custom_api_key = <<>>
    /\ uploaded_file_data = Nothing
    /\ results = <<>>
    /\ environ = EmptyDict
    /\ calls = <<>>
    /\ result = Nothing
    /\ outcome = "idle"
    /\ successes = 0

\* A script run without the Generate button: the page is redrawn, nothing is
\* called, and lines 99-122 restage the image from the (new) widget values.
Rerun ==
    /\ uploaded_file_data' =
           StageImage(selected_mode', uploaded_file', image_url_input', uploaded_file_data)
    /\ calls' = <<>>
    /\ result' = Nothing
    /\ outcome' = "idle"
    /\ UNCHANGED <<results, environ, successes>>

\* A widget that a run does not render loses its value (Streamlit drops the
\* state of unrendered widgets); it shows its default when rendered again.
SelectMode ==
    \E m \in ModeNames :
        /\ m # selected_mode
        /\ selected_mode' = m
        /\ uploaded_file' = IF image_input_needed(m) THEN uploaded_file ELSE Nothing
        /\ image_url_input' = IF image_input_needed(m) THEN image_url_input ELSE ""
        /\ duration' = IF IsVideoType(m) THEN duration ELSE DefaultDuration
        /\ audio_url' = IF IsVideoType(m) THEN audio_url ELSE ""
        /\ strength' = IF MODELS(m).type = I2I THEN strength ELSE DefaultStrength
        /\ UNCHANGED <<prompt, resolution, seed, negative_prompt, custom_api_key>>
        /\ Rerun

UploadFile ==
    \E f \in Files :
        /\ image_input_needed(selected_mode)
        /\ uploaded_file # Some(f)
        /\ uploaded_file' = Some(f)
        /\ UNCHANGED <<selected_mode, image_url_input, prompt, duration, resolution,
                       seed, strength, audio_url, negative_prompt, custom_api_key>>
        /\ Rerun

RemoveFile ==
    /\ image_input_needed(selected_mode)
    /\ uploaded_file # Nothing
    /\ uploaded_file' = Nothing
    /\ UNCHANGED <<selected_mode, image_url_input, prompt, duration, resolution,
                   seed, strength, audio_url, negative_prompt, custom_api_key>>
    /\ Rerun

SetImageUrl ==
    \E u \in ImageUrls :
        /\ image_input_needed(selected_mode)
        /\ u # image_url_input
        /\ image_url_input' = u
        /\ UNCHANGED <<selected_mode, uploaded_file, prompt, duration, resolution,
                       seed, strength, audio_url, negative_prompt, custom_api_key>>
        /\ Rerun

SetPrompt ==
    \E p \in Prompts :
        /\ p # prompt
        /\ prompt' = p
        /\ UNCHANGED <<selected_mode, uploaded_file, image_url_input, duration, resolution,
                       seed, strength, audio_url, negative_prompt, custom_api_key>>
        /\ Rerun

SetDuration ==
    \E d \in Durations :
        /\ IsVideoType(selected_mode)
        /\ d # duration
        /\ duration' = d
        /\ UNCHANGED <<selected_mode, uploaded_file, image_url_input, prompt, resolution,
                       seed, strength, audio_url, negative_prompt, custom_api_key>>
        /\ Rerun

SetResolution ==
    \E r \in Resolutions :
        /\ r # resolution
        /\ resolution' = r
        /\ UNCHANGED <<selected_mode, uploaded_file, image_url_input, prompt, duration,
                       seed, strength, audio_url, negative_prompt, custom_api_key>>
        /\ Rerun

SetSeed ==
    \E s \in Seeds :
        /\ s # seed
        /\ seed' = s
        /\ UNCHANGED <<selected_mode, uploaded_file, image_url_input, prompt, duration,
                       resolution, strength, audio_url, negative_prompt, custom_api_key>>
        /\ Rerun

SetStrength ==
    \E s \in Strengths :
        /\ MODELS(selected_mode).type = I2I
        /\ s # strength
        /\ strength' = s
        /\ UNCHANGED <<selected_mode, uploaded_file, image_url_input, prompt, duration,
                       resolution, seed, audio_url, negative_prompt, custom_api_key>>
        /\ Rerun

SetAudioUrl ==
    \E a \in AudioUrls :
        /\ IsVideoType(selected_mode)
        /\ a # audio_url
        /\ audio_url' = a
        /\ UNCHANGED <<selected_mode, uploaded_file, image_url_input, prompt, duration,
                       resolution, seed, strength, negative_prompt, custom_api_key>>
        /\ Rerun

SetNegativePrompt ==
    \E n \in Negatives :
        /\ n # negative_prompt
        /\ negative_prompt' = n
        /\ UNCHANGED <<selected_mode, uploaded_file, image_url_input, prompt, duration,
                       resolution, seed, strength, audio_url, custom_api_key>>
        /\ Rerun

SetApiKey ==
    \E k \in ApiKeys :
        /\ k # custom_api_key
        /\ custom_api_key' = k
        /\ UNCHANGED <<selected_mode, uploaded_file, image_url_input, prompt, duration,
                       resolution, seed, strength, audio_url, negative_prompt>>
        /\ Rerun

\* Validate without the missing-image test.
ValidateNoImageTest(key, mode, staged, url, text) ==
    IF key = <<>> \/ ~Contains(<<":">>, key) THEN "key_error"
    ELSE IF text = <<>> THEN "prompt_error"
    ELSE "ok"

(***************************************************************************)
(* The Generate button: validation, asset upload, request building, the   *)
(* inference call and result processing (lines 160-237).                  *)
(***************************************************************************)
\* Lines 161-166: which st.error the run shows, or "ok" to go on.
Validate(key, mode, staged, url, text) ==
    IF key = <<>> \/ ~Contains(<<":">>, key) THEN "key_error"
    ELSE IF image_input_needed(mode) /\ staged = Nothing /\ url \in {None, ""}
         THEN "image_error"
    ELSE IF text = <<>> THEN "prompt_error"
    ELSE "ok"

\* SeedArgs treating every negative seed as "random".
SeedArgsNonNegative(s) == IF s >= 0 THEN [seed |-> s] ELSE EmptyDict

\* Lines 182-183
SeedArgs(s) == IF s # -1 THEN [seed |-> s] ELSE EmptyDict

\* Lines 179-183
BaseArgs(text, negative, s) ==
    SeedArgs(s)
    @@ (IF negative # <<>> THEN [negative_prompt |-> negative] ELSE EmptyDict)
    @@ [prompt |-> text]

\* Line 188
AspectRatio(r) ==
    IF Contains(Ratio169, r) THEN Ratio169
    ELSE IF Contains(Ratio916, r) THEN Ratio916
    ELSE Ratio11

\* Line 196: width, height = map(int, resolution.split('x')[0:2])
ParseResolution(r) ==
    LET parts == FirstTwo(Split(r, "x"))
        ints == [i \in 1..Len(parts) |-> PyInt(parts[i])]
    IN IF Len(parts) = 2 /\ ints[1].ok /\ ints[2].ok
       THEN [ok |-> TRUE, width |-> ints[1].val, height |-> ints[2].val]
       ELSE [ok |-> FALSE, width |-> 0, height |-> 0]

\* SafetyArgs with the text-to-image branch left without the flag.
SafetyArgsNotTextToImage(type) ==
    IF type = T2I THEN EmptyDict ELSE [enable_safety_checker |-> FALSE]

\* Lines 191, 201, 207, 210: every branch sets the flag to False
SafetyArgs(type) == [enable_safety_checker |-> FALSE]

\* Lines 186-210: the model-specific arguments laid over the base arguments.
\* ok is FALSE when building raises (the ValueError of line 196).
ModelArgs(type, base, final_image_url, r, d, audio, str) ==
    CASE type = T2V ->
            [ok |-> TRUE,
             args |-> (IF audio # "" THEN [audio_url |-> audio] ELSE EmptyDict)
                      @@ [aspect_ratio |-> AspectRatio(r), resolution |-> Res1080p,
                          duration |-> PyStr(d)]
                      @@ SafetyArgs(type) @@ base]
      [] type = I2V ->
            LET wh == ParseResolution(r)
            IN [ok |-> wh.ok,
                args |-> [image_url |-> final_image_url, width |-> wh.width,
                          height |-> wh.height]
                         @@ SafetyArgs(type) @@ base]
      [] type = I2I ->
            [ok |-> TRUE,
             args |-> [image_url |-> final_image_url, strength |-> str]
                      @@ SafetyArgs(type) @@ base]
      [] type = T2I ->
            [ok |-> TRUE, args |-> SafetyArgs(type) @@ base]

\* Responses of the inference call.  A response is described by what it holds
\* under "video" and "images" and whether it has "seed" and "actual_prompt".
VideoKinds == {"absent", "empty", "nourl", "url"}
ImageKinds == {"absent", "empty", "blank", "one", "two"}
VideoUrl == "https://x/a.mp4"
ImageUrl == "https://x/a.png"
ResponseSeed == JInt(7)
ActualPrompt == <<"P","2">>

VideoOf(vk) ==
    CASE vk = "empty" -> EmptyDict
      [] vk = "nourl" -> [content_type |-> "video/mp4"]
      [] vk = "url" -> [url |-> VideoUrl]

ImagesOf(ik) ==
    CASE ik = "empty" -> <<>>
      [] ik = "blank" -> <<EmptyDict>>
      [] ik = "one" -> <<[url |-> ImageUrl]>>
      [] ik = "two" -> <<[url |-> ImageUrl], [url |-> "https://x/b.png"]>>

ResultOf(r) ==
    (IF r.vk # "absent" THEN [video |-> VideoOf(r.vk)] ELSE EmptyDict)
    @@ (IF r.ik # "absent" THEN [images |-> ImagesOf(r.ik)] ELSE EmptyDict)
    @@ (IF r.sk THEN [seed |-> ResponseSeed] ELSE EmptyDict)
    @@ (IF r.ak THEN [actual_prompt |-> ActualPrompt] ELSE EmptyDict)

\* Responses with a "video" entry only, with an "images" entry only, with
\* neither, and one with both.
Responses ==
    { r \in [vk : VideoKinds, ik : ImageKinds, sk : BOOLEAN, ak : BOOLEAN] :
        r.vk = "absent" \/ r.ik = "absent" \/ (r.vk = "url" /\ r.ik = "one") }

\* OutputData that takes whichever output the response holds, whatever the mode.
OutputDataAnyKind(output_type, res) ==
    IF "video" \in DOMAIN res /\ DOMAIN res.video # {}
    THEN res.video
    ELSE IF "images" \in DOMAIN res /\ Len(res.images) > 0
    THEN res.images[1]
    ELSE EmptyDict

\* Lines 216-220.  None and the empty dict are both falsy at line 222 and are
\* not told apart here.
OutputData(output_type, res) ==
    IF output_type = "video" /\ "video" \in DOMAIN res /\ DOMAIN res.video # {}
    THEN res.video
    ELSE IF output_type = "image" /\ "images" \in DOMAIN res /\ Len(res.images) > 0
    THEN res.images[1]
    ELSE EmptyDict

\* SeedOf that never reads the response.
SeedOfIgnored(res) == JStr("N/A")

\* result.get('seed', 'N/A')
SeedOf(res) == IF "seed" \in DOMAIN res THEN res.seed ELSE JStr("N/A")

\* Lines 223-228: the record built from the output; only called when
\* output_data has a url.
NewRecord(output_type, output_data, res, text) ==
    [url |-> output_data.url, type |-> output_type, seed |-> SeedOf(res), prompt |-> text]

\* InsertResult appending at the end.
AppendResult(history, record) == history \o <<record>>

\* st.session_state.results.insert(0, record)
InsertResult(history, record) == <<record>> \o history

UploadOutcomes == {"raise", "empty", "url"}
UploadedUrl == "https://fal/u.png"

\* Lines 170-175: final_image_url starts as the URL box's value and is
\* overwritten by whatever the upload returns when an image is staged.
ResolveImage(staged, url_in, up) ==
    IF staged # Nothing
    THEN (IF up = "empty" THEN "" ELSE UploadedUrl)
    ELSE url_in

\* The upload either raises or returns what the storage service sent back;
\* the inference call either raises or returns one of Resps.
Generate(Resps, cap) ==
    LET mode == selected_mode
        type == MODELS(mode).type
        output_type == MODELS(mode).output
        key == api_key_to_use
        staged == StageImage(mode, uploaded_file, image_url_input, uploaded_file_data)
        url_in == image_url_from_input(mode, image_url_input)
        v == Validate(key, mode, staged, url_in, prompt)
        uploads == IF staged # Nothing
                   THEN <<[op |-> "upload", data |-> staged[1].data,
                           content_type |-> staged[1].type, key |-> key]>>
                   ELSE <<>>
    IN
    /\ Len(results) < cap
    /\ uploaded_file_data' = staged
    /\ UNCHANGED widgets
    /\ IF v # "ok"
       THEN /\ outcome' = v
            /\ calls' = <<>>
            /\ result' = Nothing
            /\ UNCHANGED <<results, environ, successes>>
       ELSE
       /\ environ' = [FAL_KEY |-> key]
       /\ \E up \in (IF staged # Nothing THEN UploadOutcomes ELSE {"none"}) :
          LET final_image_url == ResolveImage(staged, url_in, up)
              built == ModelArgs(type, BaseArgs(prompt, negative_prompt, seed),
                                 final_image_url, resolution, duration, audio_url, strength)
              subscribe == <<[op |-> "subscribe", model_id |-> MODELS(mode).id,
                              arguments |-> built.args]>>
          IN
          IF up = "raise"
          THEN /\ outcome' = "error_upload"
               /\ calls' = uploads
               /\ result' = Nothing
               /\ UNCHANGED <<results, successes>>
          ELSE IF ~built.ok
          THEN /\ outcome' = "error_value"
               /\ calls' = uploads
               /\ result' = Nothing
               /\ UNCHANGED <<results, successes>>
          ELSE
          /\ calls' = uploads \o subscribe
          /\ \/ /\ outcome' = "error_subscribe"
                /\ result' = Nothing
                /\ UNCHANGED <<results, successes>>
             \/ \E r \in Resps :
                LET res == ResultOf(r)
                    output_data == OutputData(output_type, res)
                IN
                /\ result' = Some(res)
                /\ IF output_data = EmptyDict
                   THEN /\ outcome' = "generation_failed"
                        /\ UNCHANGED <<results, successes>>
                   ELSE IF "url" \notin DOMAIN output_data
                   THEN /\ outcome' = "error_key"
                        /\ UNCHANGED <<results, successes>>
                   ELSE /\ outcome' = "success"
                        /\ results' = InsertResult(results,
                               NewRecord(output_type, output_data, res, prompt))
                        /\ successes' = successes + 1

\* The outcomes of lines 162, 164 and 166.
ValidationErrors == {"key_error", "image_error", "prompt_error"}

\* The responses the form specification draws from: a video and an image
\* response that are well formed, and one with neither.
FormResponses ==
    { r \in Responses : /\ r.sk /\ ~r.ak
                        /\ <<r.vk, r.ik>> \in {<<"url", "absent">>, <<"absent", "one">>,
                                               <<"absent", "absent">>} }

Next ==
    \/ SelectMode
    \/ UploadFile
    \/ RemoveFile
    \/ SetImageUrl
    \/ SetPrompt
    \/ SetDuration
    \/ SetResolution
    \/ SetSeed
    \/ SetStrength
    \/ SetAudioUrl
    \/ SetNegativePrompt
    \/ SetApiKey
    \/ Generate(FormResponses, MaxFormResults)

Spec == Init /\ [][Next]_vars

\* The pipeline specification: a valid key is entered, the settings keep their
\* defaults, and the services answer with every response of Responses.
InitPipeline ==
    /\ selected_mode = "Text to Video"
    /\ uploaded_file = Nothing
    /\ image_url_input = ""
    /\ prompt = DefaultPrompt
    /\ duration = DefaultDuration
    /\ resolution = Res1024
    /\ seed = DefaultSeed
    /\ strength = DefaultStrength
    /\ audio_url = ""
    /\ negative_prompt = DefaultNegative
    /\ custom_api_key = GoodKey
    /\ uploaded_file_data = Nothing
    /\ results = <<>>
    /\ environ = EmptyDict
    /\ calls = <<>>
    /\ result = Nothing
    /\ outcome = "idle"
    /\ successes = 0

NextPipeline ==
    \/ SelectMode
    \/ UploadFile
    \/ RemoveFile
    \/ SetImageUrl
    \/ SetPrompt
    \/ Generate(Responses, MaxResults)

SpecPipeline == InitPipeline /\ [][NextPipeline]_vars

(***************************************************************************)
(* Properties.  After a Generate run, calls, result and outcome describe  *)
(* that submission and the widgets still hold the values it was made      *)
(* with; any other run resets outcome to "idle".                           *)
(***************************************************************************)
Submitted == outcome # "idle"

PassedValidation == Submitted /\ outcome \notin ValidationErrors

Requests == { calls[i].arguments : i \in { j \in 1..Len(calls) : calls[j].op = "subscribe" } }

UploadCount == Cardinality({ i \in 1..Len(calls) : calls[i].op = "upload" })

IsBlank(text) == \A i \in 1..Len(text) : IsSpace(text[i])

\* C1: every request handed to the inference call, in any mode and with any
\* form values, contains enable_safety_checker with the value false.
SafetyCheckerAlwaysOff ==
    \A a \in Requests :
        "enable_safety_checker" \in DOMAIN a /\ a.enable_safety_checker = FALSE

SafetyCheckerWitness ==
    /\ selected_mode = "Text to Image"
    /\ seed = 7
    /\ negative_prompt = <<>>
    /\ \E a \in Requests : a.enable_safety_checker = FALSE

\* C2: a request has no seed field when the seed box holds -1, and otherwise
\* has a seed field holding exactly the number in the seed box.
SeedSentVerbatim ==
    \A a \in Requests :
        IF seed = -1
        THEN "seed" \notin DOMAIN a
        ELSE "seed" \in DOMAIN a /\ a.seed = seed

SeedSentWitness ==
    /\ seed = -2
    /\ \E a \in Requests : "seed" \in DOMAIN a /\ a.seed = -2

\* C3: a submission whose prompt is empty or whitespace-only ends in a
\* validation error with no upload call, no inference call and no new record.
BlankPromptRejected ==
    (Submitted /\ IsBlank(prompt)) =>
        /\ outcome \in ValidationErrors
        /\ calls = <<>>
        /\ result = Nothing

\* C4: in an image-requiring mode, a submission made with no staged image and
\* no URL ends in a validation error with no upload and no inference call.
MissingImageRejected ==
    (/\ Submitted
     /\ image_input_needed(selected_mode)
     /\ uploaded_file_data = Nothing
     /\ image_url_input = "") =>
        /\ outcome \in ValidationErrors
        /\ calls = <<>>

\* The case after an earlier submission got past validation (the environment
\* holds its key) and the form was emptied again.
MissingImageWitness ==
    /\ outcome = "image_error"
    /\ selected_mode = "Image to Image"
    /\ "FAL_KEY" \in DOMAIN environ
    /\ uploaded_file_data = Nothing
    /\ image_url_input = ""

\* C5: an image-mode submission that passes validation takes exactly one
\* path: with a URL in the box it uploads nothing and sends that URL as
\* image_url, also when the uploader holds a file; with no URL it uploads once.
UrlTakesPrecedence ==
    (PassedValidation /\ image_input_needed(selected_mode)) =>
        IF image_url_input # ""
        THEN /\ UploadCount = 0
             /\ \A a \in Requests : a.image_url = image_url_input
        ELSE UploadCount = 1

UrlTakesPrecedenceWitness ==
    /\ outcome = "success"
    /\ image_input_needed(selected_mode)
    /\ uploaded_file # Nothing
    /\ image_url_input = UserUrl
    /\ UploadCount = 0
    /\ \E a \in Requests : a.image_url = UserUrl

\* C6: the history always holds as many records as submissions succeeded; a
\* successful submission puts its record in front of the unchanged earlier
\* records, and every other step leaves the history as it was.
HistoryNewestFirst ==
    [][/\ Len(results') = successes'
       /\ IF successes' = successes + 1
          THEN /\ Tail(results') = results
               /\ Head(results').prompt = prompt
               /\ Head(results').type = MODELS(selected_mode).output
          ELSE results' = results]_vars

HistoryWitness ==
    /\ outcome = "success"
    /\ successes = 2
    /\ Len(results) = 2
    /\ results[1].type = "image"
    /\ results[2].type = "video"

\* C7: in image-to-video mode with the resolution "1280x720 (16:9)", a
\* submission that gets as far as building the request sends a request with
\* width 1280 and height 720.
NamedSizeSent ==
    (/\ PassedValidation
     /\ outcome # "error_upload"
     /\ selected_mode = "Image to Video"
     /\ resolution = Res1280) =>
        \E a \in Requests : a.width = 1280 /\ a.height = 720

\* A response lacks the field its output kind requires.
LacksRequired(output_type, res) ==
    IF output_type = "video"
    THEN ~("video" \in DOMAIN res /\ "url" \in DOMAIN res.video)
    ELSE ~("images" \in DOMAIN res /\ Len(res.images) > 0
           /\ "url" \in DOMAIN res.images[1])

\* C8: a response without video.url (video modes) or without a first image
\* url (image modes) ends the submission in an error and adds no record.
MalformedResponseRejected ==
    [][(/\ result' # Nothing
        /\ LacksRequired(MODELS(selected_mode').output, result'[1])) =>
           /\ outcome' \in {"generation_failed", "error_key"}
           /\ results' = results
           /\ successes' = successes]_vars

MalformedResponseWitness ==
    /\ result # Nothing
    /\ MODELS(selected_mode).output = "video"
    /\ "video" \in DOMAIN result[1]
    /\ LacksRequired("video", result[1])
    /\ outcome = "error_key"
    /\ Len(results) = 1

\* The url a well-formed response gives for an output kind.
ResponseUrl(output_type, res) ==
    IF output_type = "video" THEN res.video.url ELSE res.images[1].url

UsableImageUrlSent ==
    image_input_needed(selected_mode) =>
        \A a \in Requests : "image_url" \in DOMAIN a /\ a.image_url \notin {"", None}

====
